---- MODULE Spec2Model ----
(***************************************************************************)
(* Model of dlisio's python/dlisio/lis/curves.py: the translation of a     *)
(* LIS Data Format Specification Record (DFSR) into a numpy structured     *)
(* dtype (spec_dtype, dfsr_dtype, mkunique) and the top-level curves()     *)
(* call that validates the DFSR and hands the dtype to the decode engine.  *)
(*                                                                         *)
(* Python values are modelled as follows:                                  *)
(*   - a channel spec is a record [mnemonic, reprc, reserved_size,         *)
(*     samples]; an entry block is a record [type, value];                 *)
(*   - a label is a TLA+ string, so that str.format and += on labels are   *)
(*     string concatenation and label equality is string equality;         *)
(*   - a (label, dtype) tuple is the 2-tuple <<label, dtype>>;             *)
(*   - a call either returns a value or raises: Return(v) / Raise(exc,msg) *)
(***************************************************************************)
EXTENDS Integers, Sequences, FiniteSets, TLC

VARIABLES
    pc,           \* position of the call in progress
    arg,          \* arguments of the call in progress
    ret,          \* outcome of the call: Pending, Return(v) or Raise(exc, msg)
    fmt,          \* curves(): local fmt   (Unset until assigned)
    dtype,        \* curves(): local dtype (Unset until assigned)
    translated,   \* log of the spec_dtype calls made: <<[spec, out], ...>>
    decodeCalls,  \* number of calls of core.read_data_records
    allocCalls    \* number of calls of the alloc callback

vars == <<pc, arg, ret, fmt, dtype, translated, decodeCalls, allocCalls>>

(***************************************************************************)
(* Bounds of the model                                                     *)
(***************************************************************************)
MaxSpecs    == 3   \* longest dfsr.specs drawn for curves()
MaxTypes    == 4   \* longest list drawn for mkunique()
MaxReserved == 8   \* largest reserved_size drawn for spec_dtype()
MaxSamples  == 2   \* largest samples drawn for spec_dtype()
MaxAlloc    == 1   \* most alloc() calls the decode engine makes in one call

(***************************************************************************)
(* Outcomes of a call                                                      *)
(***************************************************************************)
Pending       == [kind |-> "pending"]
Unset         == [kind |-> "unset"]
Return(v)     == [kind |-> "return", value |-> v]
Raise(exc, m) == [kind |-> "raise", exc |-> exc, msg |-> m]

Returned(out) == out.kind = "return"
Raised(out)   == out.kind = "raise"

DepthModeError    == Raise("NotImplementedError", "lis.curves: depth recording mode == 1")
FastChannelError  == Raise("NotImplementedError", "Fast channel not implemented")
SamplesError      == Raise("ValueError", "samples < 1")
SampleSizeError   == Raise("ValueError", "reserve_size % samples != 0")
EntriesError      == Raise("ValueError", "reserved_size % (samples * sizeof(reprc)) != 0")
DuplicateError    == Raise("ValueError", "field occurs more than once")
EngineError       == Raise("RuntimeError", "read_data_records")

(***************************************************************************)
(* Representation codes (core.lis_reprc) and the registry                  *)
(***************************************************************************)
Reprcs == {"f16", "f32", "f32low", "f32fix", "i8", "i16", "i32", "byte", "string"}

\* nptype: reprc -> numpy format type-string
nptype(reprc) ==
    CASE reprc = "f16"    -> "f4"
      [] reprc = "f32"    -> "f4"
      [] reprc = "f32low" -> "f4"
      [] reprc = "f32fix" -> "f4"
      [] reprc = "i8"     -> "i1"
      [] reprc = "i16"    -> "i2"
      [] reprc = "i32"    -> "i4"
      [] reprc = "byte"   -> "u1"
      [] reprc = "string" -> "O"

\* core.lis_sizeof_type: size in bytes of one element of a fixed-size code.
\* (string has no fixed size; spec_dtype never asks for it)
lis_sizeof_type(reprc) ==
    CASE reprc = "f16"    -> 2
      [] reprc = "f32"    -> 4
      [] reprc = "f32low" -> 4
      [] reprc = "f32fix" -> 4
      [] reprc = "i8"     -> 1
      [] reprc = "i16"    -> 2
      [] reprc = "i32"    -> 4
      [] reprc = "byte"   -> 1

\* np.dtype(t) and np.dtype((t, n)): the dtype of one column
ScalarDtype(t)      == [type |-> t, count |-> 1]
SubarrayDtype(t, n) == [type |-> t, count |-> n]

(***************************************************************************)
(* spec_dtype                                                              *)
(***************************************************************************)
\* sample_size = spec.reserved_size / spec.samples, when it is whole
SampleSize(spec) == spec.reserved_size \div spec.samples

\* "if sample_size % 1": the float quotient has a fractional part
SampleSizeFractional(spec) == spec.reserved_size % spec.samples # 0

\* (mutant: the division by reprsize is left out)
EntriesMissingDivision(spec) == SampleSize(spec)

\* entries = sample_size / reprsize, when it is whole
Entries(spec) == SampleSize(spec) \div lis_sizeof_type(spec.reprc)

\* (mutant: entries is computed with the floor division //, so that
\* entries % 1 is always 0)
EntriesFractionalFloorDiv(spec) ==
    (SampleSize(spec) \div lis_sizeof_type(spec.reprc)) % 1 # 0

\* "if entries % 1": the float quotient has a fractional part
EntriesFractional(spec) == SampleSize(spec) % lis_sizeof_type(spec.reprc) # 0

spec_dtype(spec) ==
    IF spec.samples < 1 THEN SamplesError
    ELSE IF SampleSizeFractional(spec) THEN SampleSizeError
    ELSE IF spec.reprc = "string" THEN Return(ScalarDtype(nptype(spec.reprc)))
    ELSE IF EntriesFractional(spec) THEN EntriesError
    ELSE IF Entries(spec) = 1
         THEN Return(ScalarDtype(nptype(spec.reprc)))
         ELSE Return(SubarrayDtype(nptype(spec.reprc), Entries(spec)))

(***************************************************************************)
(* mkunique                                                                *)
(***************************************************************************)
\* tail.format(tailcount) with tail = '({})'
tail(tailcount) == "(" \o ToString(tailcount) \o ")"

\* labels = [label for label, _ in types]
Labels(types) == [i \in 1..Len(types) |-> types[i][1]]

\* Counter(labels)[x]
Count(labels, x) == Cardinality({i \in 1..Len(labels) : labels[i] = x})

\* duplicates = [x for x, count in Counter(labels).items() if count > 1]
\* (a Counter lists its keys in order of first occurrence)
RECURSIVE Duplicates_(_, _)
Duplicates_(labels, i) ==
    IF i > Len(labels) THEN <<>>
    ELSE LET first == \A j \in 1..(i - 1) : labels[j] # labels[i]
         IN  IF first /\ Count(labels, labels[i]) > 1
             THEN <<labels[i]>> \o Duplicates_(labels, i + 1)
             ELSE Duplicates_(labels, i + 1)
Duplicates(labels) == Duplicates_(labels, 1)

\* One pass of the inner loop: every tuple named `duplicate` gets the tail
\* holding the number of such tuples before it in the list.
Retail(types, duplicate) ==
    [i \in 1..Len(types) |->
        IF types[i][1] = duplicate
        THEN LET tailcount == Cardinality({j \in 1..(i - 1) : types[j][1] = duplicate})
             IN  <<types[i][1] \o tail(tailcount), types[i][2]>>
        ELSE types[i]]

\* The outer loop: one pass per duplicate, each on the list the previous pass left
RECURSIVE RetailAll(_, _)
RetailAll(types, duplicates) ==
    IF duplicates = <<>> THEN types
    ELSE RetailAll(Retail(types, Head(duplicates)), Tail(duplicates))

mkunique(types) == RetailAll(types, Duplicates(Labels(types)))

(***************************************************************************)
(* dfsr_dtype                                                              *)
(***************************************************************************)
\* np.dtype(types) for a list of (label, dtype) tuples: a structured dtype
\* with one field per tuple, or ValueError when a label occurs twice
NpDtype(types) ==
    IF \E i, j \in 1..Len(types) : i # j /\ types[i][1] = types[j][1]
    THEN DuplicateError
    ELSE Return([kind |-> "struct", fields |-> types])

\* (mutant: the filter forgets the sample count)
IsIncludedAnyRate(ch) == ch.reserved_size > 0

\* (mutant: the filter lets zero-width channels through)
IsIncludedZeroWidth(ch) == ch.reserved_size >= 0 /\ ch.samples = 1

\* "if ch.reserved_size > 0 and ch.samples == 1"
IsIncluded(ch) == ch.reserved_size > 0 /\ ch.samples = 1

\* the channels the list comprehension keeps, in order
Included(specs) == SelectSeq(specs, IsIncluded)

\* index of the first kept channel whose spec_dtype raises, 0 if none does
FirstRaise(chans) ==
    LET bad == {i \in 1..Len(chans) : Raised(spec_dtype(chans[i]))}
    IN  IF bad = {} THEN 0 ELSE CHOOSE i \in bad : \A j \in bad : i <= j

\* the spec_dtype calls the list comprehension makes: one per kept channel,
\* in order, ending with the first that raises
TranslatorCalls(specs) ==
    LET chans == Included(specs)
        bad   == FirstRaise(chans)
        last  == IF bad = 0 THEN Len(chans) ELSE bad
    IN  [i \in 1..last |-> [spec |-> chans[i], out |-> spec_dtype(chans[i])]]

\* types = [(ch.mnemonic, spec_dtype(ch)) for ch in ... ], when no call raises
Types(specs) ==
    LET chans == Included(specs)
    IN  [i \in 1..Len(chans) |-> <<chans[i].mnemonic, spec_dtype(chans[i]).value>>]

\* (mutant: "if strict: raise" is left out)
dfsr_dtype_never_strict(specs, strict) ==
    LET chans == Included(specs)
        bad   == FirstRaise(chans)
    IN  IF bad # 0 THEN spec_dtype(chans[bad])
        ELSE LET types == Types(specs)
                 first == NpDtype(types)
             IN  IF Returned(first) THEN first
                 ELSE NpDtype(mkunique(types))

dfsr_dtype(specs, strict) ==
    LET chans == Included(specs)
        bad   == FirstRaise(chans)
    IN  IF bad # 0 THEN spec_dtype(chans[bad])
        ELSE LET types == Types(specs)
                 first == NpDtype(types)
             IN  IF Returned(first) THEN first
                 ELSE IF strict THEN first
                 ELSE NpDtype(mkunique(types))

(***************************************************************************)
(* curves                                                                  *)
(***************************************************************************)
DepthRecordMode == 13

\* (mutant: only the first entry block is looked at)
DepthModeOneFirstEntry(entries) ==
    /\ Len(entries) > 0
    /\ entries[1].type = DepthRecordMode /\ entries[1].value = 1

\* any(x for x in dfsr.entries if x.type == 13 and x.value == 1)
DepthModeOne(entries) ==
    \E i \in 1..Len(entries) :
        entries[i].type = DepthRecordMode /\ entries[i].value = 1

\* (mutant: all() in place of any())
FastChannelsAll(specs) == \A i \in 1..Len(specs) : specs[i].samples > 1

\* any(x for x in dfsr.specs if x.samples > 1)
FastChannels(specs) == \E i \in 1..Len(specs) : specs[i].samples > 1

\* core.dfs_formatstring(dfsr): an opaque token derived from the DFSR
dfs_formatstring(dfsr) == [kind |-> "fmt", of |-> dfsr.specs]

DepthGuard ==
    /\ pc = "depth_guard"
    /\ IF DepthModeOne(arg.dfsr.entries)
       THEN pc' = "done" /\ ret' = DepthModeError
       ELSE pc' = "fast_guard" /\ ret' = ret
    /\ UNCHANGED <<arg, fmt, dtype, translated, decodeCalls, allocCalls>>

FastGuard ==
    /\ pc = "fast_guard"
    /\ IF FastChannels(arg.dfsr.specs) /\ ~arg.skip_fast
       THEN pc' = "done" /\ ret' = FastChannelError
       ELSE pc' = "fmt" /\ ret' = ret
    /\ UNCHANGED <<arg, fmt, dtype, translated, decodeCalls, allocCalls>>

FormatString ==
    /\ pc = "fmt"
    /\ fmt' = dfs_formatstring(arg.dfsr)
    /\ pc' = "dtype"
    /\ UNCHANGED <<arg, ret, dtype, translated, decodeCalls, allocCalls>>

\* (mutant: a failed layout build is not raised and the call goes on)
BuildDtypeSwallowed ==
    /\ pc = "dtype"
    /\ translated' = TranslatorCalls(arg.dfsr.specs)
    /\ LET out == dfsr_dtype(arg.dfsr.specs, arg.strict)
       IN  IF Raised(out)
           THEN pc' = "read" /\ ret' = ret /\ dtype' = dtype
           ELSE pc' = "read" /\ ret' = ret /\ dtype' = out.value
    /\ UNCHANGED <<arg, fmt, decodeCalls, allocCalls>>

\* dtype = dfsr_dtype(dfsr, strict=strict)
BuildDtype ==
    /\ pc = "dtype"
    /\ translated' = TranslatorCalls(arg.dfsr.specs)
    /\ LET out == dfsr_dtype(arg.dfsr.specs, arg.strict)
       IN  IF Raised(out)
           THEN pc' = "done" /\ ret' = out /\ dtype' = dtype
           ELSE pc' = "read" /\ ret' = ret /\ dtype' = out.value
    /\ UNCHANGED <<arg, fmt, decodeCalls, allocCalls>>

\* return core.read_data_records(fmt, f.io, f.index, dfsr.info,
\*                               dtype.itemsize, alloc)
ReadDataRecords ==
    /\ pc = "read"
    /\ decodeCalls' = decodeCalls + 1
    /\ pc' = "engine"
    /\ UNCHANGED <<arg, ret, fmt, dtype, translated, allocCalls>>

\* the decode engine calls alloc(size): np.empty(shape = size, dtype = dtype)
Alloc ==
    /\ pc = "engine"
    /\ allocCalls < MaxAlloc
    /\ allocCalls' = allocCalls + 1
    /\ UNCHANGED <<pc, arg, ret, fmt, dtype, translated, decodeCalls>>

\* the decode engine returns the array it filled; curves() returns it
EngineReturn ==
    /\ pc = "engine"
    /\ ret' = Return([kind |-> "ndarray", dtype |-> dtype])
    /\ pc' = "done"
    /\ UNCHANGED <<arg, fmt, dtype, translated, decodeCalls, allocCalls>>

\* the decode engine raises; curves() lets it through
EngineRaise ==
    /\ pc = "engine"
    /\ ret' = EngineError
    /\ pc' = "done"
    /\ UNCHANGED <<arg, fmt, dtype, translated, decodeCalls, allocCalls>>

(***************************************************************************)
(* Inputs                                                                  *)
(***************************************************************************)
Channel(m, r, size, n) ==
    [mnemonic |-> m, reprc |-> r, reserved_size |-> size, samples |-> n]

Entry(t, v) == [type |-> t, value |-> v]

\* sequences over S of length at most n
SeqUpTo(S, n) == UNION {[1..k -> S] : k \in 0..n}

\* channel specs a DFSR is drawn from: scalar, array, string, indivisible,
\* zero and negative width, fast, no samples; with colliding mnemonics
ChannelDomain ==
    { Channel("TIME",    "i16",    2, 1),
      Channel("TIME",    "f32",    8, 1),
      Channel("TIME(0)", "i16",    2, 1),
      Channel("DEPT",    "string", 3, 1),
      Channel("DEPT",    "f32",    6, 1),
      Channel("TIME",    "i16",    0, 1),
      Channel("DEPT",    "i8",    -1, 1),
      Channel("TIME",    "i16",    4, 2),
      Channel("TIME",    "i16",    2, 0) }

\* entry blocks of a DFSR
EntryDomain ==
    { <<>>,
      <<Entry(DepthRecordMode, 0)>>,
      <<Entry(DepthRecordMode, 1)>>,
      <<Entry(12, 1)>>,
      <<Entry(12, 1), Entry(DepthRecordMode, 1)>> }

Quiet ==
    /\ ret = Pending
    /\ fmt = Unset
    /\ dtype = Unset
    /\ translated = <<>>
    /\ decodeCalls = 0
    /\ allocCalls = 0

(***************************************************************************)
(* Spec: one call of curves(f, dfsr, strict, skip_fast)                    *)
(***************************************************************************)
Init ==
    /\ pc = "depth_guard"
    /\ arg \in [dfsr : [entries : EntryDomain, specs : SeqUpTo(ChannelDomain, MaxSpecs)],
                strict : BOOLEAN, skip_fast : BOOLEAN]
    /\ Quiet

Next ==
    \/ DepthGuard
    \/ FastGuard
    \/ FormatString
    \/ BuildDtype
    \/ ReadDataRecords
    \/ Alloc
    \/ EngineReturn
    \/ EngineRaise

Spec == Init /\ [][Next]_vars

(***************************************************************************)
(* SpecTranslator: one call of spec_dtype(spec)                            *)
(***************************************************************************)
InitTranslator ==
    /\ pc = "spec_dtype"
    /\ arg \in [mnemonic : {"TIME"}, reprc : Reprcs,
                reserved_size : 1..MaxReserved, samples : 0..MaxSamples]
    /\ Quiet

CallSpecDtype ==
    /\ pc = "spec_dtype"
    /\ ret' = spec_dtype(arg)
    /\ pc' = "done"
    /\ UNCHANGED <<arg, fmt, dtype, translated, decodeCalls, allocCalls>>

NextTranslator == CallSpecDtype

SpecTranslator == InitTranslator /\ [][NextTranslator]_vars

(***************************************************************************)
(* SpecResolver: one call of mkunique(types)                               *)
(***************************************************************************)
LabelDomain == {"TIME", "TIME(0)", "DEPT"}

ColumnDomain == {ScalarDtype("i2"), SubarrayDtype("f4", 2)}

InitResolver ==
    /\ pc = "mkunique"
    /\ arg \in SeqUpTo(LabelDomain \X ColumnDomain, MaxTypes)
    /\ Quiet

CallMkunique ==
    /\ pc = "mkunique"
    /\ ret' = Return(mkunique(arg))
    /\ pc' = "done"
    /\ UNCHANGED <<arg, fmt, dtype, translated, decodeCalls, allocCalls>>

NextResolver == CallMkunique

SpecResolver == InitResolver /\ [][NextResolver]_vars

(***************************************************************************)
(* Vocabulary of the properties, stated on the inputs and on the results   *)
(***************************************************************************)
InCurves   == pc \in {"depth_guard", "fast_guard", "fmt", "dtype", "read", "engine", "done"}
TheEntries == arg.dfsr.entries
TheSpecs   == arg.dfsr.specs

\* the DFSR holds an entry block of type 13 with value 1
HasDepthModeOneEntry == \E i \in DOMAIN TheEntries : TheEntries[i] = Entry(13, 1)

\* the DFSR holds a channel sampled more than once per frame
HasFastChannel == \E i \in DOMAIN TheSpecs : TheSpecs[i].samples > 1

\* both guards of curves() let the call through
GuardsPass == ~HasDepthModeOneEntry /\ (HasFastChannel => arg.skip_fast)

\* the layout build of curves() has run
BuildRan == GuardsPass /\ pc \in {"read", "engine", "done"}

Slow(ch)      == ch.samples = 1
SlowWide(ch)  == ch.samples = 1 /\ ch.reserved_size > 0
Indivisible(ch) ==
    ch.reprc # "string" /\ ch.reserved_size % lis_sizeof_type(ch.reprc) # 0

\* the channels that carry data at frame rate, in DFSR order
Kept == SelectSeq(TheSpecs, SlowWide)

KeptTranslatable == \A i \in DOMAIN Kept : ~Indivisible(Kept[i])
KeptDuplicated ==
    \E i, j \in DOMAIN Kept : i # j /\ Kept[i].mnemonic = Kept[j].mnemonic

IsPrefix(p, str) == Len(p) <= Len(str) /\ SubSeq(str, 1, Len(p)) = p

\* fields are the columns of chans, one for one and in the same order: each
\* is named by its channel's mnemonic (possibly with a tail) and has its
\* channel's element type and element count
ColumnOf(ch, field) ==
    /\ IsPrefix(ch.mnemonic, field[1])
    /\ field[2].type = nptype(ch.reprc)
    /\ field[2].count = IF ch.reprc = "string" THEN 1
                        ELSE ch.reserved_size \div lis_sizeof_type(ch.reprc)
ColumnsOf(chans, fields) ==
    /\ Len(fields) = Len(chans)
    /\ \A i \in DOMAIN chans : ColumnOf(chans[i], fields[i])

NamesUnique(fields) ==
    \A i, j \in DOMAIN fields : i # j => fields[i][1] # fields[j][1]

(***************************************************************************)
(* Properties of curves()                                                  *)
(***************************************************************************)
\* C1: a DFSR holding an entry of type 13 with value 1 makes curves() fail
\* with the depth-recording-mode NotImplementedError at its first step,
\* whatever the channels, strict and skip_fast are.
C1_DepthModeRejected ==
    (InCurves /\ HasDepthModeOneEntry) =>
        /\ pc \in {"depth_guard", "done"}
        /\ pc = "done" => ret = DepthModeError

\* C1 witness: the call has failed on a DFSR that also holds a fast channel
\* and an indivisible channel, the mode entry not being the first entry.
C1_Witness ==
    /\ pc = "done" /\ ret = DepthModeError
    /\ Len(TheEntries) = 2 /\ TheEntries[2] = Entry(13, 1)
    /\ HasFastChannel /\ ~arg.skip_fast
    /\ \E i \in DOMAIN TheSpecs : Indivisible(TheSpecs[i])

\* C2: with skip_fast = false, a DFSR that passes the depth-mode guard and
\* holds a channel with samples > 1 makes curves() fail with the fast-channel
\* NotImplementedError, whatever strict and the other channels are.
C2_FastChannelsRejected ==
    (InCurves /\ ~HasDepthModeOneEntry /\ HasFastChannel /\ ~arg.skip_fast) =>
        /\ pc \in {"depth_guard", "fast_guard", "done"}
        /\ pc = "done" => ret = FastChannelError

\* C2 witness: the call has failed on a DFSR mixing fast and slow channels.
C2_Witness ==
    /\ pc = "done" /\ ret = FastChannelError
    /\ ~HasDepthModeOneEntry /\ ~arg.skip_fast
    /\ HasFastChannel
    /\ \E i \in DOMAIN TheSpecs : SlowWide(TheSpecs[i])

\* C3 as stated: with skip_fast = true and a fast channel present, the layout
\* produced holds exactly the channels with samples == 1, in DFSR order.
C3_AllSlowChannelsRemain ==
    (BuildRan /\ arg.skip_fast /\ HasFastChannel /\ dtype # Unset) =>
        ColumnsOf(SelectSeq(TheSpecs, Slow), dtype.fields)

\* C3 amended: with skip_fast = true and a fast channel present, the layout
\* produced holds exactly the channels with samples == 1 and
\* reserved_size > 0, in DFSR order; no channel with samples > 1 is in it.
C3_SlowWideChannelsRemain ==
    (BuildRan /\ arg.skip_fast /\ HasFastChannel /\ dtype # Unset) =>
        ColumnsOf(SelectSeq(TheSpecs, SlowWide), dtype.fields)

\* C3 witness: a layout of two columns was built from a DFSR of a fast
\* channel and two slow ones.
C3_Witness ==
    /\ BuildRan /\ arg.skip_fast /\ dtype # Unset
    /\ Len(TheSpecs) = 3 /\ TheSpecs[2].samples > 1 /\ TheSpecs[2].reserved_size > 0
    /\ Len(dtype.fields) = 2

\* C4: with strict = true, a mnemonic occurring twice among the kept channels
\* (all of them translatable) makes the layout build fail with the
\* duplicate-field ValueError, and no layout is produced.
C4_StrictRejectsDuplicates ==
    (BuildRan /\ arg.strict /\ KeptDuplicated /\ KeptTranslatable) =>
        pc = "done" /\ ret = DuplicateError /\ dtype = Unset

\* C4 witness: the build failed on a DFSR whose duplicated mnemonic is borne
\* by two kept channels, next to a channel with another name.
C4_Witness ==
    /\ BuildRan /\ arg.strict /\ KeptDuplicated /\ KeptTranslatable
    /\ Len(Kept) = 3
    /\ ret = DuplicateError

\* C5 as stated: with strict = false, a mnemonic occurring twice among the
\* kept channels (all of them translatable) never makes the build fail: a
\* layout is produced and its field names are pairwise different.
C5_LenientNamesUnique ==
    (BuildRan /\ ~arg.strict /\ KeptDuplicated /\ KeptTranslatable) =>
        /\ dtype # Unset
        /\ ret \in {Pending, Return([kind |-> "ndarray", dtype |-> dtype]), EngineError}
        /\ NamesUnique(dtype.fields)

\* C8: a kept channel of a fixed-size code whose reserved_size is no multiple
\* of the code's element size makes spec_dtype raise the ValueError of the
\* entries check, and the layout build and curves() end in that same error,
\* with strict true or false, without a layout.
C8_IndivisibleRejected ==
    /\ \A i \in DOMAIN translated :
          Indivisible(translated[i].spec) => translated[i].out = EntriesError
    /\ (BuildRan /\ \E i \in DOMAIN Kept : Indivisible(Kept[i])) =>
          pc = "done" /\ ret = EntriesError /\ dtype = Unset

\* C8 witness: lenient build of a DFSR with a duplicated mnemonic and an
\* indivisible channel after it ended in the entries error.
C8_Witness ==
    /\ BuildRan /\ ~arg.strict /\ KeptDuplicated
    /\ Len(Kept) = 3 /\ Indivisible(Kept[3])
    /\ Len(translated) = 3
    /\ ret = EntriesError

\* C9: a layout that is produced holds, one for one and in DFSR order,
\* exactly the channels with reserved_size > 0 and samples == 1; a channel
\* with reserved_size <= 0 is never in it, and spec_dtype is only ever
\* called on kept channels, in DFSR order.
C9_LayoutIsKeptChannels ==
    /\ \A i \in DOMAIN translated :
          translated[i].spec.reserved_size > 0 /\ translated[i].spec.samples = 1
    /\ BuildRan =>
          /\ Len(translated) <= Len(Kept)
          /\ \A i \in DOMAIN translated : translated[i].spec = Kept[i]
    /\ (BuildRan /\ dtype # Unset) =>
          /\ Len(translated) = Len(Kept)
          /\ ColumnsOf(Kept, dtype.fields)
          /\ Cardinality({i \in DOMAIN TheSpecs : TheSpecs[i].reserved_size > 0
                                                  /\ TheSpecs[i].samples = 1})
                = Len(dtype.fields)

\* C9 witness: a layout of one column was built from a DFSR that holds a
\* zero-width channel, a kept channel and a negative-width channel.
C9_Witness ==
    /\ BuildRan /\ dtype # Unset
    /\ Len(TheSpecs) = 3
    /\ TheSpecs[1].reserved_size = 0 /\ TheSpecs[1].samples = 1
    /\ TheSpecs[3].reserved_size < 0
    /\ Len(dtype.fields) = 1 /\ Len(translated) = 1

\* C10: core.read_data_records is called at most once, and only once both
\* guards have passed and fmt and dtype have been assigned; alloc is only
\* called within that call; a call of curves() that ends in one of the
\* validation errors has made no decode-engine call and no allocation.
C10_DecodeOnlyAfterValidation ==
    /\ decodeCalls <= 1
    /\ allocCalls > 0 => decodeCalls = 1
    /\ decodeCalls > 0 => GuardsPass /\ fmt # Unset /\ dtype # Unset
    /\ (pc = "done" /\ ret \in {DepthModeError, FastChannelError, SamplesError,
                               SampleSizeError, EntriesError, DuplicateError}) =>
          decodeCalls = 0 /\ allocCalls = 0

\* C10 witness: a call of curves() returned after one decode-engine call
\* during which alloc was called.
C10_Witness ==
    /\ InCurves /\ pc = "done" /\ Returned(ret)
    /\ decodeCalls = 1 /\ allocCalls = 1

(***************************************************************************)
(* Properties of spec_dtype()                                              *)
(***************************************************************************)
\* C7: for a channel with samples == 1 and reserved_size > 0, spec_dtype
\* returns one element for the string code whatever reserved_size is, and,
\* for a fixed-size code of element size w dividing reserved_size,
\* reserved_size / w elements, which is one element iff reserved_size = w.
C7_ElementCount ==
    (pc = "done" /\ arg.samples = 1 /\ arg.reserved_size > 0) =>
        /\ arg.reprc = "string" =>
              ret = Return([type |-> "O", count |-> 1])
        /\ (arg.reprc # "string" /\ ~Indivisible(arg)) =>
              /\ Returned(ret)
              /\ ret.value.type = nptype(arg.reprc)
              /\ ret.value.count * lis_sizeof_type(arg.reprc) = arg.reserved_size
              /\ ret.value.count = 1 <=> arg.reserved_size = lis_sizeof_type(arg.reprc)

\* C7 witness: spec_dtype returned an array column of two 32-bit floats.
C7_Witness ==
    /\ pc = "done" /\ arg.samples = 1
    /\ arg.reprc = "f32" /\ arg.reserved_size = 8
    /\ ret = Return([type |-> "f4", count |-> 2])

(***************************************************************************)
(* Properties of mkunique()                                                *)
(***************************************************************************)
\* number of positions before i that hold the label of position i
OccurrenceIndex(types, i) ==
    Cardinality({j \in 1..(i - 1) : types[j][1] = types[i][1]})

Occurrences(types, i) ==
    Cardinality({j \in DOMAIN types : types[j][1] = types[i][1]})

\* C6: mkunique returns a list of the same length in which position i keeps
\* its dtype, keeps its label n when n occurs once in the input, and is
\* labelled n(k) when n occurs more than once, k being the number of earlier
\* positions of the input that hold n.
C6_OccurrenceIndexTails ==
    pc = "done" =>
        /\ Returned(ret)
        /\ Len(ret.value) = Len(arg)
        /\ \A i \in DOMAIN arg :
              /\ ret.value[i][2] = arg[i][2]
              /\ ret.value[i][1] =
                    IF Occurrences(arg, i) > 1
                    THEN arg[i][1] \o "(" \o ToString(OccurrenceIndex(arg, i)) \o ")"
                    ELSE arg[i][1]

====
